---- MODULE Spec2Model ----
(***************************************************************************)
(* Soil-water balance of agricultural fields (IrrigationManager).          *)
(*                                                                         *)
(* Part 1 models FieldHandler (src/src/field.py): the field-capacity       *)
(* estimate and the daily bucket simulation.                               *)
(* Part 2 models the persistence layer IrrigDB (src/src/database/db.py).   *)
(* Part 3 models WaterBalanceWorkflow.run (src/src/workflow.py).           *)
(*                                                                         *)
(* Water depths are integers counting 1/PerMM mm, humus is counted in      *)
(* tenths of a percent, so that every division of get_field_capacity is    *)
(* exact.  An optional value (Python None, pandas NaN) is the empty        *)
(* sequence, a present value v is <<v>>.                                   *)
(***************************************************************************)
EXTENDS Integers, Sequences, FiniteSets, TLC

VARIABLES
    fh,            \* the FieldHandler object under test (Part 1)
    args,          \* the arguments its methods are called with (Part 1)
    ret,           \* outcome of the last FieldHandler call (Part 1)
    fields,        \* table "fields" of the database (Part 2)
    water_balance, \* table of persisted water balance rows (Part 2)
    irrigation_table, \* table "irrigation_events" of the database (Part 2)
    last_call,     \* the last call of the database interface and its result
    purged,        \* ids of the fields whose rows add_field has deleted
    updated,       \* ids of the fields whose capacity attributes were edited
    clock,         \* pd.Timestamp.today(), <<day, part of the day>> (Part 3)
    run,           \* position and locals of WaterBalanceWorkflow.run (Part 3)
    plot,          \* the traces the run has handed to its plot (Part 3)
    log,           \* the records the run has logged (Part 3)
    twice,         \* how often the workflow was run back to back (Part 3)
    fig_cache,     \* _fig_cache of the dashboard (Part 4)
    build_lock,    \* the task holding _build_lock, if any (Part 4)
    tasks,         \* the calls of get_fig and where each stands (Part 4)
    threads,       \* the calls whose build_waterbalance_fig is executing
    scheduler,     \* the IrrigationScheduler object of app.py (Part 8)
    loops,         \* the tasks start() has created for _run_loop (Part 8)
    now            \* datetime.now(), in ticks (Part 8)

fhVars == <<fh, args, ret>>
dbVars == <<fields, irrigation_table, water_balance, last_call, purged, updated>>
wfVars == <<clock, run, plot, log, twice>>
guiVars == <<fig_cache, build_lock, tasks, threads>>
schedVars == <<scheduler, loops, now>>
vars == <<fh, args, ret, fields, irrigation_table, water_balance, last_call,
          purged, updated,
          clock, run, plot, log, twice,
          fig_cache, build_lock, tasks, threads,
          scheduler, loops, now>>

----------------------------------------------------------------------------
(* Optional values *)

None == <<>>

Some(v) == <<v>>

Val(o) == o[1]

Max(a, b) == IF a >= b THEN a ELSE b

Min(a, b) == IF a <= b THEN a ELSE b

----------------------------------------------------------------------------
(* Bounds *)

MaxDays == 3        \* rows of a station table

MaxEvents == 2      \* irrigation events handed to the simulation

----------------------------------------------------------------------------
(* Part 1: FieldHandler *)

\* depths are counted in 1/PerMM mm: 2 (mean of the range) * 10 (tenths of
\* a percent humus, cm to dm) * 10 (the factor 1.5 as 15/10)
PerMM == 200

MM(x) == x * PerMM

\* str.lower() on the soil-type spellings the model uses
Lower(s) ==
    CASE s = "Sand" -> "sand"
      [] s = "Humoser Lehmiger Sand" -> "humoser lehmiger sand"
      [] s = "LEHM" -> "lehm"
      [] OTHER -> s

\* default_lookup: soil type -> (min, max) usable water in mm per dm
DefaultLookup ==
    [ sand |-> <<6, 12>> ] @@
    ( "schwach lehmiger sand" :> <<8, 14>> ) @@
    ( "lehmiger sand" :> <<12, 18>> ) @@
    ( "schluffiger sand" :> <<10, 16>> ) @@
    ( "sandiger schluff" :> <<20, 28>> ) @@
    ( "schluff" :> <<22, 30>> ) @@
    ( "lehm" :> <<18, 25>> ) @@
    ( "sandiger lehm" :> <<16, 22>> ) @@
    ( "schluffiger lehm" :> <<20, 28>> ) @@
    ( "toniger lehm" :> <<18, 26>> ) @@
    ( "schluffiger ton" :> <<18, 25>> ) @@
    ( "ton" :> <<15, 22>> ) @@
    ( "humoser lehmiger sand" :> <<14, 20>> )

\* the humus bonus without its ceiling of 6.0 mm per dm
HumusExtraNoCap(humus10) == Max(0, humus10 - 15) * 3

\* humus_extra = min(max(0.0, humus_pct - 1.5) * 1.5, 6.0), in 1/20 mm per dm;
\* humus10 is humus_pct in tenths of a percent
HumusExtra(humus10) == Min(Max(0, humus10 - 15) * 3, 120)

\* FieldHandler.get_field_capacity: the exception it raises, or "none"
FieldCapacityRaises(soil_type, humus10, root_depth_cm) ==
    IF root_depth_cm <= 0 THEN "ValueError"
    ELSE IF humus10 < 0 THEN "ValueError"
    ELSE IF Lower(soil_type) \notin DOMAIN DefaultLookup THEN "KeyError"
    ELSE "none"

\* FieldHandler.get_field_capacity: the FieldCapacity it returns.
\* nfk_mm_per_dm is counted in 1/20 mm, nfk_total_mm in 1/PerMM mm.
FieldCapacity(soil_type, humus10, root_depth_cm) ==
    LET range == DefaultLookup[Lower(soil_type)]
        base20 == (range[1] + range[2]) * 10
        rate20 == base20 + HumusExtra(humus10)
    IN  [ soil_type |-> soil_type,
          root_dept |-> root_depth_cm,
          humus_pct |-> humus10,
          nfk_mm_per_dm |-> rate20,
          nfk_total_mm |-> rate20 * root_depth_cm ]

\* Series.fillna(0.0) on one cell
FillNa(c) == IF c = None THEN 0 ELSE Val(c)

\* DataFrame.sort_index(): the rows in ascending order of their (distinct) dates
SortIndexUnsorted(rows) == rows

SortIndex(rows) ==
    LET n == Len(rows)
        rank(i) == Cardinality({j \in 1..n : rows[j].date < rows[i].date}) + 1
    IN  [k \in 1..n |-> rows[CHOOSE i \in 1..n : rank(i) = k]]

\* irr_df[amount].fillna(0.0).groupby(date).sum().reindex(..., fill_value=0.0)
\* evaluated at one date: the sum of the amounts of the events of that date
\* groupby(...).last(): the amount of the last event of the day
LastIrrigation(events, date) ==
    LET on == {i \in 1..Len(events) : events[i].date = date}
    IN  IF on = {} THEN 0
        ELSE FillNa(events[CHOOSE i \in on : \A j \in on : i >= j].amount)

RECURSIVE DailyIrrigation(_, _)
DailyIrrigation(events, date) ==
    IF events = <<>> THEN 0
    ELSE (IF Head(events).date = date THEN FillNa(Head(events).amount) ELSE 0)
         + DailyIrrigation(Tail(events), date)

\* max(0.0, min(capacity, x))
ClampNoCeiling(x, capacity) == Max(0, x)

Clamp(x, capacity) == Max(0, Min(capacity, x))

\* current_storage = capacity, before the first day
InitialStorageEmpty(capacity) == 0

InitialStorage(capacity) == capacity

\* the loop over net: the storage after each day, starting from current
RECURSIVE StorageLoop(_, _, _)
StorageLoop(net, capacity, current) ==
    IF net = <<>> THEN <<>>
    ELSE LET s == Clamp(current + Head(net), capacity)
         IN  <<s>> \o StorageLoop(Tail(net), capacity, s)

\* the parameters calculate_water_balance declares besides self
CalculateWaterBalanceParams == {"station_data", "irrigation_events"}

\* the column of the station table that holds evapotranspiration
EtColumn(columns) ==
    IF "et0_corrected" \in columns THEN "et0_corrected"
    ELSE IF "et0" \in columns THEN "et0"
    ELSE "none"

\* FieldHandler.calculate_water_balance: the exception the call raises, or
\* "none"; kwargs are the keyword arguments of the call
WaterBalanceRaises(handler, kwargs, station_data, irrigation_events) ==
    IF ~(kwargs \subseteq CalculateWaterBalanceParams) THEN "TypeError"
    ELSE IF station_data = None THEN "ValueError"
    ELSE IF Val(station_data).rows = <<>> \/ Val(station_data).columns = {}
        THEN "ValueError"
    ELSE IF Val(station_data).index # "DatetimeIndex" THEN "TypeError"
    ELSE IF handler.field_capacity = None THEN "ValueError"
    ELSE IF "precipitation" \notin Val(station_data).columns THEN "KeyError"
    ELSE IF EtColumn(Val(station_data).columns) = "none" THEN "KeyError"
    ELSE IF /\ irrigation_events # None
            /\ Val(irrigation_events).rows # <<>>
            /\ Val(irrigation_events).amount_column = "none" THEN "KeyError"
    ELSE IF Val(handler.field_capacity).nfk_total_mm <= 0 THEN "ValueError"
    ELSE "none"

\* FieldHandler.calculate_water_balance: the table it returns
\* a trigger that fires on every day below capacity
BelowCapacity(storage, capacity, p) == storage < capacity

\* soil_storage < trigger_level with trigger_level = capacity - p * capacity;
\* p is counted in percent, so both sides are counted in 1/(100 * PerMM) mm
BelowRaw(storage, capacity, p) == 100 * storage < 100 * capacity - p * capacity

WaterBalanceTable(handler, station_data, irrigation_events) ==
    LET data == SortIndex(Val(station_data).rows)
        n == Len(data)
        et_column == EtColumn(Val(station_data).columns)
        precip == [d \in 1..n |-> FillNa(data[d].precipitation)]
        evap == [d \in 1..n |-> FillNa(data[d][et_column])]
        events == IF irrigation_events = None THEN <<>>
                  ELSE Val(irrigation_events).rows
        irrigation == [d \in 1..n |-> DailyIrrigation(events, data[d].date)]
        incoming == [d \in 1..n |-> precip[d] + irrigation[d]]
        net == [d \in 1..n |-> incoming[d] - evap[d]]
        capacity == Val(handler.field_capacity).nfk_total_mm
        storage == StorageLoop(net, capacity, InitialStorage(capacity))
        p == handler.p_allowable
        base(d) == [ date |-> data[d].date,
                     precipitation |-> precip[d],
                     irrigation |-> irrigation[d],
                     evapotranspiration |-> evap[d],
                     incoming |-> incoming[d],
                     net |-> net[d],
                     soil_storage |-> storage[d],
                     field_capacity |-> capacity,
                     deficit |-> capacity - storage[d] ]
        \* raw = p * capacity, p counted in percent: raw and the trigger
        \* level are counted in 1/(100 * PerMM) mm
        trigger(d) == [ readily_available_water |-> p * capacity,
                        below_raw |-> BelowRaw(storage[d], capacity, p) ]
    IN  [d \in 1..n |-> IF p # 0 THEN base(d) @@ trigger(d) ELSE base(d)]

----------------------------------------------------------------------------
(* Inputs of Part 1 *)

\* soil type, humus (tenths of a percent), root depth (cm), p_allowable (percent)
FieldProfiles ==
    { [soil_type |-> "Humoser Lehmiger Sand", humus10 |-> 35, root_depth_cm |-> 50, p_allowable |-> 0],
      [soil_type |-> "sand", humus10 |-> 15, root_depth_cm |-> 30, p_allowable |-> 40],
      [soil_type |-> "torf", humus10 |-> 50, root_depth_cm |-> 30, p_allowable |-> 0] }

\* (precipitation, corrected evapotranspiration) of one day
DayValues ==
    { <<Some(0), Some(MM(5))>>, <<Some(MM(20)), Some(MM(5))>>,
      <<Some(0), Some(MM(30))>>, <<None, None>> }

AllColumns == {"precipitation", "et0", "et0_corrected"}

\* column sets of tables that lack a column
ColumnChoices ==
    { {"precipitation", "et0"}, {"et0", "et0_corrected"}, {"precipitation"} }

\* a station table of n days; order "desc" hands the rows over latest first
StationRows(n, values, order) ==
    [k \in 1..n |->
        LET date == IF order = "desc" THEN n + 1 - k ELSE k
            et == values[date][2]
        IN  [ date |-> date,
              precipitation |-> values[date][1],
              et0_corrected |-> et,
              et0 |-> IF et = None THEN None ELSE Some(2 * Val(et)) ]]

StationTables ==
    {None} \cup
    UNION { { Some([index |-> "DatetimeIndex", columns |-> AllColumns,
                    rows |-> StationRows(n, v, o)]) :
                v \in [1..n -> DayValues], o \in {"asc", "desc"} } :
            n \in 0..MaxDays } \cup
    { Some([index |-> "DatetimeIndex", columns |-> c, rows |-> StationRows(1, v, "asc")]) :
        v \in [1..1 -> DayValues], c \in ColumnChoices } \cup
    { Some([index |-> "RangeIndex", columns |-> AllColumns,
            rows |-> StationRows(1, <<<<Some(0), Some(MM(5))>>>>, "asc")]) }

EventChoices ==
    { [date |-> 1, amount |-> Some(MM(10))], [date |-> 1, amount |-> Some(MM(15))],
      [date |-> 2, amount |-> None] }

IrrigationFrames ==
    {None} \cup
    { Some([amount_column |-> "amount", rows |-> r]) :
        r \in UNION {[1..m -> EventChoices] : m \in 0..MaxEvents} } \cup
    { Some([amount_column |-> "none", rows |-> <<[date |-> 1, amount |-> Some(MM(10))]>>]) }

\* the initial_storage keyword: not passed, passed as None, passed as a depth
InitialStorageChoices ==
    { [kwargs |-> {"station_data", "irrigation_events"}, initial_storage |-> None],
      [kwargs |-> {"station_data", "irrigation_events", "initial_storage"}, initial_storage |-> None],
      [kwargs |-> {"station_data", "irrigation_events", "initial_storage"}, initial_storage |-> Some(MM(50))] }

\* dashboard.py at import: no figure cached, the lock free, no call of get_fig
NoFigure ==
    fig_cache = None /\ build_lock = None /\ tasks = <<>> /\ threads = {}

\* app.py before the startup hook: no scheduler started, no loop task
NoScheduler == scheduler = None /\ loops = <<>> /\ now = 0

NoCall == [op |-> "none", raised |-> "none", value |-> None]

\* FieldHandler.__init__
NewFieldHandler(profile) ==
    [ soil_type |-> profile.soil_type,
      p_allowable |-> profile.p_allowable,
      field_capacity |-> None,
      water_balance |-> None ]

InitFieldHandler ==
    /\ \E profile \in FieldProfiles, sd \in StationTables,
          ev \in IrrigationFrames, kw \in InitialStorageChoices :
        /\ fh = NewFieldHandler(profile)
        /\ args = [ humus10 |-> profile.humus10,
                    root_depth_cm |-> profile.root_depth_cm,
                    station_data |-> sd,
                    irrigation_events |-> ev,
                    kwargs |-> kw.kwargs,
                    initial_storage |-> kw.initial_storage ]
    /\ ret = NoCall
    /\ fields = {} /\ irrigation_table = {} /\ water_balance = {}
    /\ last_call = None /\ purged = {} /\ updated = {}
    /\ NoFigure
    /\ NoScheduler
    /\ clock = <<0, 0>> /\ run = None /\ plot = {} /\ log = {} /\ twice = None

\* field.get_field_capacity(humus_pct, root_depth_cm)
GetFieldCapacity ==
    /\ ret.op = "none"
    /\ LET raised == FieldCapacityRaises(fh.soil_type, args.humus10, args.root_depth_cm)
       IN  IF raised # "none"
           THEN /\ ret' = [op |-> "get_field_capacity", raised |-> raised, value |-> None]
                /\ fh' = fh
           ELSE LET capacity == FieldCapacity(fh.soil_type, args.humus10, args.root_depth_cm)
                IN  /\ fh' = [fh EXCEPT !.field_capacity = Some(capacity)]
                    /\ ret' = [op |-> "get_field_capacity", raised |-> "none",
                               value |-> Some(capacity)]
    /\ UNCHANGED <<args, dbVars, wfVars, guiVars, schedVars>>

\* field.calculate_water_balance(station_data, irrigation_events, **kwargs)
CalculateWaterBalance ==
    /\ ret.op # "calculate_water_balance"
    /\ LET raised == WaterBalanceRaises(fh, args.kwargs, args.station_data,
                                        args.irrigation_events)
       IN  IF raised # "none"
           THEN /\ ret' = [op |-> "calculate_water_balance", raised |-> raised,
                           value |-> None]
                /\ fh' = fh
           ELSE LET table == WaterBalanceTable(fh, args.station_data,
                                               args.irrigation_events)
                IN  /\ fh' = [fh EXCEPT !.water_balance = Some(table)]
                    /\ ret' = [op |-> "calculate_water_balance", raised |-> "none",
                               value |-> Some(table)]
    /\ UNCHANGED <<args, dbVars, wfVars, guiVars, schedVars>>

NextFieldHandler ==
    \/ GetFieldCapacity
    \/ CalculateWaterBalance

SpecFieldHandler == InitFieldHandler /\ [][NextFieldHandler]_vars

----------------------------------------------------------------------------
(* Properties of the bucket simulation *)

\* a call of calculate_water_balance has returned a table
Simulated == ret.op = "calculate_water_balance" /\ ret.raised = "none"

Balance == Val(ret.value)

\* the row of the station table handed in that carries the given date
InputRow(date) ==
    LET rows == Val(args.station_data).rows
    IN  rows[CHOOSE i \in 1..Len(rows) : rows[i].date = date]

\* C1: every soil_storage value calculate_water_balance returns lies between
\* 0 and the field capacity of its row, for every input of the simulation.
C1_StorageWithinCapacity ==
    Simulated =>
        \A d \in 1..Len(Balance) :
            /\ Balance[d].field_capacity > 0
            /\ 0 <= Balance[d].soil_storage
            /\ Balance[d].soil_storage <= Balance[d].field_capacity

\* a returned table in which one day was cut at capacity and one at zero
C1_Witness ==
    /\ Simulated
    /\ \E d \in 2..Len(Balance) :
        Balance[d - 1].soil_storage + Balance[d].net > Balance[d].field_capacity
    /\ \E d \in 2..Len(Balance) :
        Balance[d - 1].soil_storage + Balance[d].net < 0

\* C2: the days come out in chronological order whatever the order of the
\* input rows; each day has incoming = precipitation + irrigation,
\* net = incoming - et, storage = the previous day's storage plus net cut to
\* [0, capacity], deficit = capacity - storage; capacity 100 mm with
\* precipitation [0,20,0], no irrigation and et [5,5,30] gives storage
\* [95,100,70] and deficit [5,0,30].
C2_DailyRecurrence ==
    Simulated =>
        /\ Len(Balance) = Len(Val(args.station_data).rows)
        /\ \A d \in 1..Len(Balance) :
            LET r == Balance[d]
                in == InputRow(r.date)
                c == r.field_capacity
            IN  /\ d > 1 => Balance[d - 1].date < r.date
                /\ r.precipitation = (IF in.precipitation = None THEN 0
                                      ELSE in.precipitation[1])
                /\ r.incoming = r.precipitation + r.irrigation
                /\ r.net = r.incoming - r.evapotranspiration
                /\ d > 1 =>
                     LET x == Balance[d - 1].soil_storage + r.net
                     IN  r.soil_storage = (IF x < 0 THEN 0 ELSE IF x > c THEN c ELSE x)
                /\ r.deficit = c - r.soil_storage
        /\ ( /\ Len(Balance) = 3
             /\ Balance[1].field_capacity = 100 * PerMM
             /\ [d \in 1..3 |-> Balance[d].precipitation] = <<0, 20 * PerMM, 0>>
             /\ [d \in 1..3 |-> Balance[d].irrigation] = <<0, 0, 0>>
             /\ [d \in 1..3 |-> Balance[d].evapotranspiration]
                    = <<5 * PerMM, 5 * PerMM, 30 * PerMM>> )
           => /\ [d \in 1..3 |-> Balance[d].soil_storage]
                    = <<95 * PerMM, 100 * PerMM, 70 * PerMM>>
              /\ [d \in 1..3 |-> Balance[d].deficit] = <<5 * PerMM, 0, 30 * PerMM>>

\* the example of C2, its rows handed in latest day first
C2_Witness ==
    /\ Simulated
    /\ Len(Balance) = 3
    /\ Val(args.station_data).rows[1].date = 3
    /\ [d \in 1..3 |-> Balance[d].soil_storage] = <<95 * PerMM, 100 * PerMM, 70 * PerMM>>
    /\ [d \in 1..3 |-> Balance[d].irrigation] = <<0, 0, 0>>

\* the irrigation events handed to the simulation
EventRows ==
    IF args.irrigation_events = None THEN <<>>
    ELSE Val(args.irrigation_events).rows

\* the amounts of the events numbered in S, added up
RECURSIVE AmountSum(_)
AmountSum(S) ==
    IF S = {} THEN 0
    ELSE LET i == CHOOSE k \in S : TRUE
         IN  (IF EventRows[i].amount = None THEN 0 ELSE EventRows[i].amount[1])
             + AmountSum(S \ {i})

C22_TriggerBelowRaw ==
    Simulated =>
        \A d \in 1..Len(Balance) :
            LET r == Balance[d]
            IN  IF fh.p_allowable # 0
                THEN /\ {"readily_available_water", "below_raw"} \subseteq DOMAIN r
                     /\ r.readily_available_water = fh.p_allowable * r.field_capacity
                     /\ r.below_raw <=>
                          r.soil_storage * 100 < r.field_capacity * (100 - fh.p_allowable)
                ELSE {"readily_available_water", "below_raw"} \cap DOMAIN r = {}

\* a table with a day below capacity but above the trigger level and a day
\* below the trigger level
C22_Witness ==
    /\ Simulated
    /\ fh.p_allowable # 0
    /\ \E d, e \in 1..Len(Balance) :
         /\ Balance[d].soil_storage < Balance[d].field_capacity
         /\ ~Balance[d].below_raw
         /\ Balance[e].below_raw

\* the station table of a resumed run: the days after the last persisted one
RestAfter(date) ==
    Some([Val(args.station_data) EXCEPT
            !.rows = SelectSeq(Val(args.station_data).rows,
                               LAMBDA r : r.date > date)])

\* the keywords of the call run makes: field.calculate_water_balance(
\* station.data, field_irrigation, initial_storage=initial_storage)
ResumeKeywords == {"station_data", "irrigation_events", "initial_storage"}

\* C24: computing a window in two runs, the second resuming after the last
\* day the first has persisted, gives every later day the soil_storage that
\* computing the whole window in one run gives it.
C24_ResumeEqualsSingleRun ==
    Simulated =>
        \A k \in 1..(Len(Balance) - 1) :
            LET rest == RestAfter(Balance[k].date)
            IN  /\ WaterBalanceRaises(fh, ResumeKeywords, rest,
                                      args.irrigation_events) = "none"
                /\ LET resumed == WaterBalanceTable(fh, rest, args.irrigation_events)
                   IN  \A j \in 1..Len(resumed) :
                         resumed[j].soil_storage = Balance[k + j].soil_storage

\* the call is valid but for the initial_storage keyword it passes
ValidButForInitialStorage ==
    WaterBalanceRaises(fh, args.kwargs \ {"initial_storage"}, args.station_data,
                       args.irrigation_events) = "none"

\* C3: a call that supplies an initial storage returns a table whose first
\* day is the supplied storage, cut to [0, capacity], plus the first day's
\* net, cut to [0, capacity].
C3_StartsFromInitialStorage ==
    ( /\ ret.op = "calculate_water_balance"
      /\ "initial_storage" \in args.kwargs
      /\ args.initial_storage # None
      /\ ValidButForInitialStorage )
    => /\ ret.raised = "none"
       /\ LET c == Balance[1].field_capacity
              s0 == Max(0, Min(c, Val(args.initial_storage)))
          IN  Balance[1].soil_storage = Max(0, Min(c, s0 + Balance[1].net))

----------------------------------------------------------------------------
(* Part 2: the persistence layer IrrigDB *)

\* persisted rows are dated 0..MaxDay
MaxDay == 2

Days == 0..MaxDay

FieldNames == {"Acker", "Wiese"}

\* the attributes of a field as the dashboard enters them
BaseProfile ==
    [ reference_station |-> "103", soil_type |-> "sand", humus10 |-> 15,
      root_depth_cm |-> 30, area_ha |-> None, p_allowable |-> 0 ]

ProfileChoices ==
    { BaseProfile,
      [BaseProfile EXCEPT !.humus10 = 35],
      [BaseProfile EXCEPT !.root_depth_cm = 50],
      [BaseProfile EXCEPT !.soil_type = "lehm"],
      [BaseProfile EXCEPT !.p_allowable = 40] }

FieldAttributes ==
    {"reference_station", "soil_type", "humus10", "root_depth_cm", "area_ha",
     "p_allowable"}

\* the attributes get_field_capacity computes the capacity from
CapacityAttributes == {"soil_type", "humus10", "root_depth_cm"}

\* models.Field(name=..., ...), its primary key assigned by the flush
NewField(id, name, p) ==
    [ id |-> id, name |-> name,
      reference_station |-> p.reference_station, soil_type |-> p.soil_type,
      humus10 |-> p.humus10, root_depth_cm |-> p.root_depth_cm,
      area_ha |-> p.area_ha, p_allowable |-> p.p_allowable ]

\* Column(Integer, primary_key=True): the rowid after the largest one in use
NewId(table) ==
    IF table = {} THEN 1
    ELSE (CHOOSE i \in {f.id : f \in table} : \A f \in table : f.id <= i) + 1

\* IrrigDB._query_field(session, name=name)
QueryField(table, name) ==
    LET found == {f \in table : f.name = name}
    IN  IF found = {} THEN None ELSE Some(CHOOSE f \in found : TRUE)

\* the comparisons of add_field that set updated = True
\* a comparison that finds every attribute changed
EveryAttribute(field, p) == FieldAttributes

ChangedAttributes(field, p) == {a \in FieldAttributes : field[a] # p[a]}

\* a row of the water balance table; one row per (field_id, date)
WaterBalanceRow(field_id, date, soil_storage) ==
    [field_id |-> field_id, date |-> date, soil_storage |-> soil_storage]

WaterBalanceOf(table, field_id) == {r \in table : r.field_id = field_id}

\* the rows in the order of their dates
OrderByDate(rows) ==
    LET n == Cardinality(rows)
        rank(r) == Cardinality({q \in rows : q.date < r.date}) + 1
    IN  [k \in 1..n |-> CHOOSE r \in rows : rank(r) = k]

\* the same query ordered by date ascending
EarliestWaterBalance(table, field_id) ==
    LET rows == WaterBalanceOf(table, field_id)
    IN  IF rows = {} THEN None
        ELSE Some(CHOOSE r \in rows : \A q \in rows : q.date >= r.date)

\* IrrigDB._get_latest_water_balance: order by date descending, first row
LatestWaterBalance(table, field_id) ==
    LET rows == WaterBalanceOf(table, field_id)
    IN  IF rows = {} THEN None
        ELSE Some(CHOOSE r \in rows : \A q \in rows : q.date <= r.date)

\* the same query without its filter on field_id
QueryWaterBalanceAnyField(table, field_id, start, end) ==
    {r \in table : /\ r.date >= start /\ r.date <= end
                   /\ \A q \in table : (q.date = r.date) => q.field_id >= r.field_id}

\* IrrigDB.query_water_balance(field_id=..., start=..., end=...)
QueryWaterBalance(table, field_id, start, end) ==
    {r \in table : r.field_id = field_id /\ r.date >= start /\ r.date <= end}

\* a delete that matches no row
ClearNoRows(table, field_id) == table

\* a delete limited to the latest row of the field
ClearLatestRow(table, field_id) ==
    table \ {r \in table : Some(r) = LatestWaterBalance(table, field_id)}

\* a clear that deletes the rows of every field
ClearAllRows(table, field_id) == {}

\* IrrigDB._clear_water_balance(session, field_id): the rows that remain
ClearWaterBalanceRows(table, field_id) == {r \in table : r.field_id # field_id}

\* models.Irrigation(field_id=..., date=..., method=..., amount=...)
NewIrrigation(id, field_id, date, method, amount) ==
    [id |-> id, field_id |-> field_id, date |-> date, method |-> method,
     amount |-> amount]

\* day numbers count from the first of January of year 0
DaysPerYear == 365

YearOf(date) == date \div DaysPerYear

\* IrrigDB._get_irrigation_events(session, field_id, date)
\* a lookup that never finds an event
NoIrrigationEvents(table, field_id, date) == {}

IrrigationEventsOf(table, field_id, date) ==
    {e \in table : e.field_id = field_id /\ e.date = date}

\* IrrigDB._get_first_irrigation_event(session, field_id, year)
FirstIrrigationEvent(table, field_id, year) ==
    LET events == {e \in table : e.field_id = field_id /\ YearOf(e.date) = year}
    IN  IF events = {} THEN None
        ELSE Some(CHOOSE e \in events : \A q \in events : e.date <= q.date)

\* IrrigDB.add_field(name, reference_station, soil_type, humus_pct, ...)
AddField(name, p) ==
    /\ UNCHANGED irrigation_table
    /\ LET found == QueryField(fields, name)
       IN  IF found = None
           THEN /\ fields' = fields \cup {NewField(NewId(fields), name, p)}
                /\ UNCHANGED <<water_balance, purged, updated>>
           ELSE LET field == Val(found)
                    changed == ChangedAttributes(field, p)
                    remaining == ClearWaterBalanceRows(water_balance, field.id)
                IN  IF changed = {}
                    THEN UNCHANGED <<fields, water_balance, purged, updated>>
                    ELSE /\ fields' = (fields \ {field}) \cup {NewField(field.id, name, p)}
                         /\ water_balance' = remaining
                         /\ purged' = IF remaining # water_balance
                                      THEN purged \cup {field.id} ELSE purged
                         /\ updated' = IF changed \cap CapacityAttributes # {}
                                       THEN updated \cup {field.id} ELSE updated

----------------------------------------------------------------------------
(* Part 3: WaterBalanceWorkflow *)

\* config['general']['season_start'] and ['season_end'], as day numbers
SeasonStart == 2

SeasonEnd == 4

\* a pandas Timestamp: <<day, 0>> is midnight, <<day, 1>> is noon of that day
Midnight(day) == <<day, 0>>

TsLeq(a, b) == a[1] < b[1] \/ (a[1] = b[1] /\ a[2] <= b[2])

TsMax(a, b) == IF TsLeq(b, a) THEN a ELSE b

TsMin(a, b) == IF TsLeq(a, b) THEN a ELSE b

\* the times of day the workflow is run at
ClockChoices == {<<d, 1>> : d \in (SeasonStart - 1)..SeasonEnd}

\* run(force_fields): the ids the caller wants recomputed
ForceChoices == {<<>>, <<1>>, <<2, 1>>}

\* order_by(models.Field.name) of get_all_fields
FieldNameOrder == <<"Acker", "Wiese">>

RECURSIVE OrderByName(_, _)
OrderByName(table, names) ==
    IF names = <<>> THEN <<>>
    ELSE LET found == QueryField(table, Head(names))
         IN  (IF found = None THEN <<>> ELSE found) \o OrderByName(table, Tail(names))

\* IrrigDB.get_all_fields()
GetAllFields(table) == OrderByName(table, FieldNameOrder)

\* FieldHandler(field) as the workflow keeps it
WorkflowField(field) ==
    [id |-> field.id, name |-> field.name,
     reference_station |-> field.reference_station] @@ NewFieldHandler(field)

NoLocals ==
    [latest_balance |-> None, start_date |-> None, initial_storage |-> None,
     period_end |-> None]

\* the field the loop of run is at
CurrentField == run.fields[run.i]

\* MeteoHandler.query(self, provider, station_ids, start, end, resampler=None)
MeteoQueryParams == {"provider", "station_ids", "start", "end", "resampler"}

\* the keywords run passes to meteo_handler.query
MeteoQueryKeywords == {"provider", "station_id", "start", "end", "resampler"}

\* the outcome of meteo_handler.query: it raises on a keyword it does not
\* declare and on an empty period, and has no return statement
MeteoQuery(kwargs, start, end) ==
    IF ~(kwargs \subseteq MeteoQueryParams) THEN [raised |-> "TypeError", value |-> None]
    ELSE IF TsLeq(end, start) THEN [raised |-> "ValueError", value |-> None]
    ELSE [raised |-> "none", value |-> None]

\* the try block of run up to its first exit: "error" is the except clause,
\* "no_data" the skip on station is None; get_field_capacity() is called
\* without its required humus_pct
ComputeOutcome(start, end) ==
    LET station == MeteoQuery(MeteoQueryKeywords, start, end)
    IN  IF station.raised # "none" THEN "error"
        ELSE IF station.value = None THEN "no_data"
        ELSE "error"

\* plot_line(wb_df.index, wb_df["soil_storage"], name=field.name)
PlotLine(name, rows) ==
    LET sorted == OrderByDate(rows)
    IN  [name |-> name,
         line |-> [k \in 1..Len(sorted) |-> <<sorted[k].date, sorted[k].soil_storage>>]]

\* WaterBalanceWorkflow(config, db) followed by the entry of run(force_fields)
WorkflowStart(force_fields) ==
    /\ run = None
    /\ fields # {}
    /\ run' = [pc |-> IF force_fields = <<>> THEN "check" ELSE "clear",
               fields |-> [k \in DOMAIN GetAllFields(fields) |->
                              WorkflowField(GetAllFields(fields)[k])],
               force |-> force_fields, i |-> 1] @@ NoLocals
    /\ plot' = {}
    /\ log' = {}
    /\ UNCHANGED <<guiVars, schedVars, fhVars, dbVars, clock>>

\* db.clear_water_balance(force_fields): one transaction for each id
RunClear ==
    /\ run # None
    /\ run.pc = "clear"
    /\ water_balance' = ClearWaterBalanceRows(water_balance, Head(run.force))
    /\ run' = [run EXCEPT !.force = Tail(run.force),
                          !.pc = IF Tail(run.force) = <<>> THEN "check" ELSE "clear"]
    /\ UNCHANGED <<guiVars, schedVars, fhVars, fields, irrigation_table, last_call,
                 purged, updated,
                 clock, plot, log, twice>>

\* "Check existing data": the resume point of the current field
RunCheckExisting ==
    /\ run # None
    /\ run.pc = "check"
    /\ LET latest_balance == LatestWaterBalance(water_balance, CurrentField.id)
           next_date == IF latest_balance # None
                        THEN Midnight(Val(latest_balance).date + 1)
                        ELSE Midnight(SeasonStart)
       IN  run' = [run EXCEPT
                     !.pc = "branch",
                     !.latest_balance = latest_balance,
                     !.start_date = Some(TsMax(Midnight(SeasonStart), next_date)),
                     !.initial_storage = IF latest_balance # None
                                         THEN Some(Val(latest_balance).soil_storage)
                                         ELSE None,
                     !.period_end = Some(TsMin(clock, Midnight(SeasonEnd)))]
    /\ UNCHANGED <<guiVars, schedVars, fhVars, dbVars, clock, plot, log, twice>>

\* the loop moves to the next field, or run returns; the locals of the
\* iteration are dead from here on
NextField ==
    NoLocals @@ [run EXCEPT !.pc = IF run.i = Len(run.fields) THEN "done" ELSE "check",
                            !.i = run.i + 1]

CaughtUp == TsLeq(Val(run.period_end), Val(run.start_date))

\* start_date >= period_end: the persisted rows of the season are plotted
RunCaughtUp ==
    /\ run # None
    /\ run.pc = "branch"
    /\ CaughtUp
    /\ LET name == CurrentField.name
           wb_persisted == QueryWaterBalance(water_balance, CurrentField.id,
                                             SeasonStart, SeasonEnd)
       IN  IF wb_persisted # {}
           THEN /\ plot' = plot \cup {PlotLine(name, wb_persisted)}
                /\ log' = log \cup {<<"info", "No new period to compute", name>>}
           ELSE /\ plot' = plot
                /\ log' = log \cup {<<"info", "No new period to compute", name>>,
                                    <<"info", "nothing to plot", name>>}
    /\ run' = NextField
    /\ UNCHANGED <<guiVars, schedVars, fhVars, dbVars, clock, twice>>

\* start_date < period_end: the try block that fetches, simulates and saves
RunCompute ==
    /\ run # None
    /\ run.pc = "branch"
    /\ ~CaughtUp
    /\ LET name == CurrentField.name
           outcome == ComputeOutcome(Val(run.start_date), Val(run.period_end))
       IN  log' = log \cup {<<"info", "Starting calculation", name>>} \cup
                  (IF outcome = "no_data"
                   THEN {<<"info", "No meteo data available", name>>}
                   ELSE {<<"error", "Error calculating water balance", name>>})
    /\ run' = NextField
    /\ UNCHANGED <<guiVars, schedVars, fhVars, dbVars, clock, plot, twice>>

\* a database read of the loop raises: latest_water_balance (line 65) and
\* query_water_balance (line 73) stand outside the try block, so the
\* exception leaves run and its caller, and the workflow is dropped
RunRaises ==
    /\ run # None
    /\ run.pc = "check" \/ (run.pc = "branch" /\ CaughtUp)
    /\ run' = None
    /\ plot' = {}
    /\ log' = {}
    /\ UNCHANGED <<guiVars, schedVars, fhVars, dbVars, clock, twice>>

\* run has returned; the caller takes the figure and drops the workflow
WorkflowReturn ==
    /\ run # None
    /\ run.pc = "done"
    /\ run' = None
    /\ plot' = {}
    /\ log' = {}
    /\ UNCHANGED <<guiVars, schedVars, fhVars, dbVars, clock, twice>>

\* a day passes
Tick ==
    /\ clock[1] < SeasonEnd
    /\ clock' = <<clock[1] + 1, clock[2]>>
    /\ UNCHANGED <<guiVars, schedVars, fhVars, dbVars, run, plot, log, twice>>

\* a depth to tell the rows of the initial tables apart
SampleStorage(field_id, date) == MM(5 * (field_id + date))

\* the database files the program is started on: one or two fields, rows of
\* these fields dated up to today
InitTables ==
    /\ \E names \in {{"Acker"}, {"Acker", "Wiese"}} :
         fields = {NewField(k, FieldNameOrder[k], BaseProfile) :
                     k \in {j \in 1..2 : FieldNameOrder[j] \in names}}
    /\ clock \in ClockChoices
    /\ \E dated \in SUBSET ({f.id : f \in fields} \X {d \in Days : d <= clock[1]}) :
         water_balance = {WaterBalanceRow(x[1], x[2], SampleStorage(x[1], x[2])) :
                            x \in dated}
    /\ last_call = None
    /\ NoFigure
    /\ NoScheduler
    /\ purged = {}
    /\ updated = {}
    /\ run = None /\ plot = {} /\ log = {}
    /\ fh = None /\ args = None /\ ret = NoCall

\* the workflow on a database without irrigation events
Init == InitTables /\ irrigation_table = {} /\ twice = None

Next ==
    \/ \E name \in FieldNames, p \in ProfileChoices :
         AddField(name, p) /\ UNCHANGED <<guiVars, schedVars, fhVars, wfVars, last_call>>
    \/ \E force_fields \in ForceChoices :
         WorkflowStart(force_fields) /\ UNCHANGED twice
    \/ RunClear
    \/ RunCheckExisting
    \/ RunCaughtUp
    \/ RunCompute
    \/ RunRaises
    \/ WorkflowReturn
    \/ Tick

Spec == Init /\ [][Next]_vars

----------------------------------------------------------------------------
(* The workflow run twice in a row on an unchanged database *)

MaxRuns == 2

\* the irrigation events the database is started with
IrrigationSamples ==
    { {},
      {NewIrrigation(1, 1, 1, "drip", MM(10))},
      {NewIrrigation(1, 1, 3, "drip", MM(10))} }

InitTwice ==
    /\ InitTables
    /\ irrigation_table \in IrrigationSamples
    /\ twice \in {[count |-> 0, force_fields |-> f, before |-> {}] : f \in ForceChoices}

\* the next run, called as the one before it; before keeps the rows that
\* are persisted when the run starts
WorkflowStartAgain ==
    /\ twice.count < MaxRuns
    /\ WorkflowStart(twice.force_fields)
    /\ twice' = [twice EXCEPT !.count = twice.count + 1, !.before = water_balance]

NextTwice ==
    \/ WorkflowStartAgain
    \/ RunClear
    \/ RunCheckExisting
    \/ RunCaughtUp
    \/ RunCompute
    \/ WorkflowReturn

SpecTwice == InitTwice /\ [][NextTwice]_vars

----------------------------------------------------------------------------
(* Properties of the workflow and of the persistence layer *)

\* the run is at the given position of its loop
At(pc) == run # None /\ run.pc = pc

\* the step is the run's own: it leaves the given position and run goes on
Leaves(pc) == At(pc) /\ run' # run /\ run' # None

\* the dates and depths of a plotted line
Points(trace) == {trace.line[k] : k \in DOMAIN trace.line}

Ascending(trace) ==
    \A j, k \in DOMAIN trace.line : j < k => trace.line[j][1] < trace.line[k][1]

PointsOf(rows) == {<<r.date, r.soil_storage>> : r \in rows}

\* the persisted rows of the field dated within the season
SeasonRowsOf(table, field_id) ==
    {r \in table : r.field_id = field_id /\ SeasonStart <= r.date /\ r.date <= SeasonEnd}

\* the check of the current field resumes at the given day when the field
\* has persisted rows, taking the latest row's storage along, and at the
\* season start with no initial storage when it has none
ResumesAt(day(_)) ==
    Leaves("check") =>
        LET rows == WaterBalanceOf(water_balance, CurrentField.id)
        IN  IF rows # {}
            THEN \E r \in rows :
                    /\ \A q \in rows : q.date <= r.date
                    /\ run'.start_date = Some(<<day(r), 0>>)
                    /\ run'.initial_storage = Some(r.soil_storage)
            ELSE /\ run'.start_date = Some(<<SeasonStart, 0>>)
                 /\ run'.initial_storage = None

DayAfter(r) == r.date + 1

DayAfterWithinSeason(r) == IF r.date + 1 > SeasonStart THEN r.date + 1 ELSE SeasonStart

\* C5 as stated: for each field the run resumes the day after the latest
\* persisted date with that row's soil_storage as initial storage, and at
\* the season start with no initial storage when nothing is persisted.
C5_ResumesDayAfterLatest == [][ResumesAt(DayAfter)]_vars

\* C5: for each field the run resumes at the later of the season start and
\* the day after the latest persisted date, with that row's soil_storage as
\* initial storage; when nothing is persisted it resumes at the season start
\* with no initial storage.
C5_ResumesWithinSeason == [][ResumesAt(DayAfterWithinSeason)]_vars

\* a field whose latest row lies more than a day before the season resumes
\* at the season start and carries that row's storage
C5_Witness ==
    /\ At("branch")
    /\ run.latest_balance # None
    /\ Val(run.latest_balance).date + 1 < SeasonStart
    /\ run.start_date = Some(<<SeasonStart, 0>>)
    /\ run.initial_storage = Some(Val(run.latest_balance).soil_storage)

\* the first of the back-to-back runs has returned
FirstRunOver ==
    /\ twice.count >= 1
    /\ twice.count >= 2 \/ run = None \/ run.pc = "done"

\* C6: when the workflow is run twice in a row with the same arguments, no
\* field edited and the window unchanged, no step taken after the first run
\* has returned changes the persisted rows: the table after the second run
\* is the table after the first.
C6_SecondRunKeepsRows == [][FirstRunOver => water_balance' = water_balance]_vars

\* a second forced run has returned with rows persisted and a line plotted
C6_Witness ==
    /\ twice # None
    /\ twice.count = 2
    /\ twice.force_fields # <<>>
    /\ At("done")
    /\ water_balance # {}
    /\ plot # {}

\* the caught-up step of the current field fetches nothing, saves nothing
\* and plots the given rows of the field, if there are any, in date order
CaughtUpEmits(rows(_, _)) ==
    (Leaves("branch") /\ CaughtUp) =>
        LET name == CurrentField.name
            series == rows(water_balance, CurrentField.id)
        IN  /\ water_balance' = water_balance
            /\ \A entry \in log' \ log :
                  entry \in {<<"info", "No new period to compute", name>>,
                             <<"info", "nothing to plot", name>>}
            /\ IF series = {} THEN plot' = plot
               ELSE \E trace \in plot' :
                       /\ trace.name = name
                       /\ Points(trace) = PointsOf(series)
                       /\ Ascending(trace)
                       /\ plot' = plot \cup {trace}

\* C7 as stated: a field whose resume point is at or after the window end
\* is not fetched, simulated or saved, its rows stay as they are, and the
\* series persisted for it is plotted again.
C7_CaughtUpEmitsPersisted == [][CaughtUpEmits(WaterBalanceOf)]_vars

\* C7: a field whose resume point is at or after the window end is not
\* fetched, simulated or saved, its rows stay as they are, and its persisted
\* rows dated from the season start to the season end are plotted again.
C7_CaughtUpEmitsSeason == [][CaughtUpEmits(SeasonRowsOf)]_vars

\* a caught-up field was plotted without the rows it has from before the season
C7_Witness ==
    /\ run # None
    /\ run.i > 1
    /\ \E trace \in plot :
          LET field == run.fields[run.i - 1]
          IN  /\ trace.name = field.name
              /\ Points(trace) = PointsOf(SeasonRowsOf(water_balance, field.id))
              /\ Points(trace) # PointsOf(WaterBalanceOf(water_balance, field.id))
    /\ <<"info", "No new period to compute", run.fields[run.i - 1].name>> \in log

\* C8: once add_field has changed the humus content, the root depth or the
\* soil type of an existing field, no persisted water balance row of that
\* field remains.
C8_CapacityEditClearsRows ==
    [][\A f \in fields, g \in fields' :
          ( /\ f.id = g.id
            /\ f.name = g.name
            /\ \/ f.humus10 # g.humus10
               \/ f.root_depth_cm # g.root_depth_cm
               \/ f.soil_type # g.soil_type )
          => WaterBalanceOf(water_balance', f.id) = {}]_vars

\* add_field has deleted the rows of an edited field and left another's
C8_Witness ==
    \E f \in fields :
        /\ f.id \in updated \cap purged
        /\ f \notin {NewField(f.id, f.name, BaseProfile)}
        /\ WaterBalanceOf(water_balance, f.id) = {}
        /\ water_balance # {}

C10_FetchFailureFallsBack ==
    [][(Leaves("branch") /\ ~CaughtUp) =>
          LET name == CurrentField.name
              series == SeasonRowsOf(water_balance, CurrentField.id)
          IN  /\ water_balance' = water_balance
              /\ <<"error", "Error calculating water balance", name>> \in log'
              /\ series # {} =>
                    \E trace \in plot' :
                        trace.name = name /\ Points(trace) = PointsOf(series)]_vars

\* the run has logged a failed computation for the field of that name
ComputeFailed(name) == <<"error", "Error calculating water balance", name>> \in log

\* C11: in every run, forced ones included, a field whose computation has
\* failed still has exactly the rows that were persisted for it when the
\* run started.
C11_FailureKeepsRows ==
    (run # None /\ twice # None) =>
        \A k \in DOMAIN run.fields :
            ComputeFailed(run.fields[k].name) =>
                WaterBalanceOf(water_balance, run.fields[k].id)
                    = WaterBalanceOf(twice.before, run.fields[k].id)

\* C12: a step of the loop taken while fields remain to be processed goes
\* on to the rest of the loop, whatever happens to the current field, and
\* no step of the loop changes the rows persisted for any field.
C12_FieldsIndependent ==
    [][(run # None /\ run.pc \in {"check", "branch"} /\ run' # run) =>
          /\ water_balance' = water_balance
          /\ run.i < Len(run.fields) => (run' # None /\ run'.pc # "done")]_vars

\* the run has started a computation for the field of that name
ComputeStarted(name) == <<"info", "Starting calculation", name>> \in log

\* C13: a field without an irrigation event in the year of the run is
\* skipped: nothing is computed and nothing is plotted for it; a field with
\* such events that has no persisted rows resumes at the date of its first
\* event of the year.
C13_SeasonFromFirstIrrigation ==
    run # None =>
        \A k \in DOMAIN run.fields :
            LET field == run.fields[k]
                first == FirstIrrigationEvent(irrigation_table, field.id, YearOf(clock[1]))
            IN  IF first = None
                THEN /\ ~ComputeStarted(field.name)
                     /\ \A trace \in plot : trace.name # field.name
                ELSE (At("branch") /\ run.i = k /\ run.latest_balance = None)
                        => run.start_date = Some(<<Val(first).date, 0>>)

\* the capacity get_field_capacity gives for the attributes a field has in
\* the database now
CurrentCapacity(name) ==
    LET field == Val(QueryField(fields, name))
    IN  FieldCapacity(field.soil_type, field.humus10, field.root_depth_cm)

\* C17: a run that computes the balance of a field has, after that step,
\* the capacity of the field's handler set to the capacity of the soil type,
\* humus and root depth the field has in the database at that time.
C17_CapacityFromCurrentAttributes ==
    [][(Leaves("branch") /\ ~CaughtUp) =>
          run'.fields[run.i].field_capacity
              = Some(CurrentCapacity(CurrentField.name))]_vars

----------------------------------------------------------------------------
(* The water balance table under the calls of the database interface *)

\* the columns add_water_balance requires besides the date index
RequiredColumns ==
    {"field_id", "precipitation", "irrigation", "evapotranspiration", "incoming",
     "net", "soil_storage", "field_capacity", "deficit"}

\* the columns calculate_water_balance returns
BalanceColumns == RequiredColumns \ {"field_id"}

StorageChoices == {MM(5), MM(20)}

MaxBalanceDay == 1
BalanceDays == 0..MaxBalanceDay

\* the dataframes handed to add_water_balance: one row for each date of a
\* set of dates; an empty one, one without soil_storage, one without dates
BalanceFrames ==
    { [index |-> "DatetimeIndex", columns |-> BalanceColumns, rows |-> rows] :
         rows \in {rs \in SUBSET [date : BalanceDays, soil_storage : StorageChoices] :
                     \A r, q \in rs : r.date = q.date => r = q} } \cup
    { [index |-> "DatetimeIndex", columns |-> BalanceColumns \ {"soil_storage"},
       rows |-> {[date |-> 0, soil_storage |-> MM(5)]}],
      [index |-> "RangeIndex", columns |-> BalanceColumns,
       rows |-> {[date |-> 0, soil_storage |-> MM(5)]}] }

\* an insert that ignores the rows already stored
InsertOnly(table, records) == table \cup records

\* sqlite_insert(...).on_conflict_do_update(index_elements=[field_id, date]):
\* a record replaces the stored row of its field and date
Upsert(table, records) ==
    {r \in table : \A n \in records : n.field_id # r.field_id \/ n.date # r.date}
        \cup records

\* the stored rows a set of records overwrites with other values
Replaced(table, records) ==
    {r \in table : \E n \in records :
        n.field_id = r.field_id /\ n.date = r.date /\ n # r}

\* IrrigDB.add_water_balance(water_balance, field_id)
AddWaterBalance(frame, field_id) ==
    /\ LET missing_required == RequiredColumns \ (frame.columns \cup {"field_id"})
           records == {WaterBalanceRow(field_id, r.date, r.soil_storage) :
                         r \in frame.rows}
           call == [op |-> "add_water_balance", field_id |-> field_id]
       IN  IF missing_required # {} \/ frame.index # "DatetimeIndex" \/ records = {}
           THEN /\ water_balance' = water_balance
                /\ last_call' = Some(call @@ [records |-> {}, replaced |-> 0,
                                              result |-> 0])
           ELSE /\ water_balance' = Upsert(water_balance, records)
                /\ last_call' = Some(call @@
                     [records |-> records,
                      replaced |-> Cardinality(Replaced(water_balance, records)),
                      result |-> Cardinality(records)])
    /\ UNCHANGED <<fields, irrigation_table, purged, updated>>

\* IrrigDB.clear_water_balance(field_ids) with None or with one id
ClearWaterBalance(field_ids) ==
    /\ water_balance' = IF field_ids = None THEN {}
                        ELSE ClearWaterBalanceRows(water_balance, Val(field_ids))
    /\ last_call' = Some([op |-> "clear_water_balance", field_id |-> 0,
                          records |-> {}, replaced |-> 0,
                          result |-> Cardinality(water_balance)
                                      - Cardinality(water_balance')])
    /\ UNCHANGED <<fields, irrigation_table, purged, updated>>

\* IrrigDB(path) on a new database file
InitBalance ==
    /\ fields = {} /\ irrigation_table = {} /\ water_balance = {}
    /\ last_call = None /\ purged = {} /\ updated = {}
    /\ NoFigure
    /\ NoScheduler
    /\ clock = <<0, 0>> /\ run = None /\ plot = {} /\ log = {} /\ twice = None
    /\ fh = None /\ args = None /\ ret = NoCall

NextBalance ==
    \/ \E frame \in BalanceFrames, field_id \in 1..2 :
         AddWaterBalance(frame, field_id) /\ UNCHANGED <<guiVars, schedVars, fhVars, wfVars>>
    \/ \E field_ids \in {None, Some(1), Some(2)} :
         ClearWaterBalance(field_ids) /\ UNCHANGED <<guiVars, schedVars, fhVars, wfVars>>

SpecBalance == InitBalance /\ [][NextBalance]_vars

\* C14: whatever add_water_balance calls were made, the table holds at most
\* one row for a field and date, and the rows of the last call are in the
\* table with the values that call gave them.
C14_OneRowPerFieldAndDate ==
    /\ \A r, q \in water_balance :
          (r.field_id = q.field_id /\ r.date = q.date) => r = q
    /\ (last_call # None /\ Val(last_call).op = "add_water_balance") =>
          Val(last_call).records \subseteq water_balance

\* a call has overwritten a stored row and inserted another
C14_Witness ==
    /\ last_call # None
    /\ Val(last_call).op = "add_water_balance"
    /\ Val(last_call).replaced > 0
    /\ Val(last_call).replaced < Val(last_call).result

----------------------------------------------------------------------------
(* Fields and irrigation events under the calls of the database interface *)

MaxEventId == 2
EventDates == 1..2
EventVariants == {<<"drip", MM(10)>>, <<"sprinkler", MM(15)>>}

\* UniqueConstraint('field_id', 'date') on irrigation_events, checked at flush
ViolatesUnique(table) ==
    \E e, q \in table : e # q /\ e.field_id = q.field_id /\ e.date = q.date

Raised(op, id, error) ==
    Some([op |-> op, id |-> id, result |-> error, field_id |-> 0, event |-> None,
          existed |-> None, count |-> Cardinality(irrigation_table),
          old_field_id |-> None, cleared |-> {}])

\* a clear that forgets the field an edited event came from
OnlyNewField(field_id, old_field_id) == {field_id}

\* a change of the irrigation events that leaves the persisted rows alone
NoFieldToClear(field_id, old_field_id) == {}

\* the fields add_irrigation_event clears: the field of the call and, when
\* the event was another field's before, that field
FieldsToClear(field_id, old_field_id) ==
    {field_id} \cup {f \in old_field_id : f # 0 /\ f # field_id}

\* IrrigDB.add_irrigation_event(field_name, date, method, amount, id)
AddIrrigationEvent(field_name, date, method, amount, id) ==
    LET op == "add_irrigation_event"
        found == QueryField(fields, field_name)
        by_id == IF id = None THEN {}
                 ELSE {e \in irrigation_table : e.id = Val(id)}
        unchanged == UNCHANGED <<irrigation_table, water_balance>>
    IN  /\ UNCHANGED <<fields, purged, updated>>
        /\ IF found = None
           THEN unchanged /\ last_call' = Raised(op, id, "ValueError")
           ELSE IF id # None /\ by_id = {}
           THEN unchanged /\ last_call' = Raised(op, id, "ValueError")
           ELSE
           LET field == Val(found)
               existing == IrrigationEventsOf(irrigation_table, field.id, date)
               event == IF by_id # {} THEN by_id
                        ELSE IF existing # {}
                             THEN {CHOOSE e \in existing :
                                     \A q \in existing : e.id <= q.id}
                             ELSE {}
               old_field_id == {e.field_id : e \in event}
               row == NewIrrigation(
                        IF event # {} THEN (CHOOSE e \in event : TRUE).id
                        ELSE NewId(irrigation_table),
                        field.id, date, method, amount)
               flushed == (irrigation_table \ event) \cup {row}
               cleared == {r \in water_balance :
                             r.field_id \notin FieldsToClear(field.id, old_field_id)}
           IN  IF ViolatesUnique(flushed)
               THEN unchanged /\ last_call' = Raised(op, id, "IntegrityError")
               ELSE /\ row.id <= MaxEventId
                    /\ irrigation_table' = flushed
                    /\ water_balance' = cleared
                    /\ last_call' = Some(
                         [op |-> op, id |-> id, result |-> "ok", field_id |-> field.id,
                          event |-> Some(row),
                          existed |-> IF id # None THEN None
                                      ELSE IF \E e \in irrigation_table :
                                                e.field_id = field.id /\ e.date = date
                                           THEN Some((CHOOSE e \in irrigation_table :
                                                e.field_id = field.id /\ e.date = date).id)
                                           ELSE None,
                          count |-> Cardinality(irrigation_table),
                          old_field_id |-> IF event = {} THEN None
                                           ELSE Some((CHOOSE e \in event : TRUE).field_id),
                          cleared |-> {r.field_id : r \in water_balance \ cleared}])

\* IrrigDB.delete_irrigation_event(event_id)
DeleteIrrigationEvent(event_id) ==
    LET event == {e \in irrigation_table : e.id = event_id}
    IN  /\ irrigation_table' = irrigation_table \ event
        /\ water_balance' = {r \in water_balance :
                               r.field_id \notin {e.field_id : e \in event}}
        /\ last_call' = Some(
             [op |-> "delete_irrigation_event", id |-> Some(event_id),
              result |-> IF event = {} THEN "False" ELSE "True",
              field_id |-> 0, event |-> None, existed |-> None,
              count |-> Cardinality(irrigation_table),
              old_field_id |-> IF event = {} THEN None
                               ELSE Some((CHOOSE e \in event : TRUE).field_id),
              cleared |-> {r.field_id : r \in water_balance \ water_balance'}])
        /\ UNCHANGED <<fields, purged, updated>>

\* IrrigDB.delete_field(field_id); the irrigation events go with the field
\* by the cascade of Field.irrigation_events
DeleteField(field_id) ==
    LET field == {f \in fields : f.id = field_id}
    IN  /\ fields' = fields \ field
        /\ irrigation_table' = {e \in irrigation_table :
                                  e.field_id \notin {f.id : f \in field}}
        /\ last_call' = Some(
             [op |-> "delete_field", id |-> None,
              result |-> IF field = {} THEN "False" ELSE "True",
              field_id |-> field_id, event |-> None, existed |-> None,
              count |-> Cardinality(irrigation_table),
              old_field_id |-> None, cleared |-> {}])
        /\ UNCHANGED <<water_balance, purged, updated>>

\* the balance of day 1, as a run persists it for a field
DayOneFrame(field_id) ==
    [index |-> "DatetimeIndex", columns |-> BalanceColumns,
     rows |-> {[date |-> 1, soil_storage |-> SampleStorage(field_id, 1)]}]

\* a database with one or two fields, persisted rows, no irrigation events
InitDB ==
    /\ fields \in {{NewField(1, "Acker", BaseProfile)},
                   {NewField(1, "Acker", BaseProfile),
                    NewField(2, "Wiese", BaseProfile)}}
    /\ irrigation_table = {}
    /\ water_balance \in SUBSET {WaterBalanceRow(f.id, 1, SampleStorage(f.id, 1)) :
                                   f \in fields}
    /\ last_call = None /\ purged = {} /\ updated = {}
    /\ NoFigure
    /\ NoScheduler
    /\ clock = <<0, 0>> /\ run = None /\ plot = {} /\ log = {} /\ twice = None
    /\ fh = None /\ args = None /\ ret = NoCall

NextDB ==
    \/ \E field_name \in FieldNames, date \in EventDates, v \in EventVariants,
          id \in {None} \cup {Some(k) : k \in 1..(MaxEventId + 1)} :
         AddIrrigationEvent(field_name, date, v[1], v[2], id)
           /\ UNCHANGED <<guiVars, schedVars, fhVars, wfVars>>
    \/ \E event_id \in 1..(MaxEventId + 1) :
         DeleteIrrigationEvent(event_id) /\ UNCHANGED <<guiVars, schedVars, fhVars, wfVars>>
    \/ \E field_id \in 1..3 :
         DeleteField(field_id) /\ UNCHANGED <<guiVars, schedVars, fhVars, wfVars>>
    \/ \E f \in fields :
         AddWaterBalance(DayOneFrame(f.id), f.id) /\ UNCHANGED <<guiVars, schedVars, fhVars, wfVars>>

SpecDB == InitDB /\ [][NextDB]_vars

Called(op) == last_call # None /\ Val(last_call).op = op

\* C15: after any add_irrigation_event and delete_irrigation_event calls
\* there is at most one irrigation event for a field and date, and adding an
\* event for a field and date that already has one succeeds by giving the
\* existing event the new method and amount, without adding an event
\* (an add is a call without the id of an event to edit).
C15_OneEventPerFieldAndDate ==
    /\ \A e, q \in irrigation_table :
          (e.field_id = q.field_id /\ e.date = q.date) => e = q
    /\ Called("add_irrigation_event") =>
          LET call == Val(last_call)
          IN  /\ call.id = None => call.result # "IntegrityError"
              /\ call.existed # None =>
                   /\ Val(call.event).id = Val(call.existed)
                   /\ Val(call.event) \in irrigation_table
                   /\ Cardinality(irrigation_table) = call.count

\* an add on an occupied field and date has changed the method of its event
C15_Witness ==
    /\ Called("add_irrigation_event")
    /\ Val(last_call).existed # None
    /\ Val(Val(last_call).event).method = "sprinkler"
    /\ \E e \in irrigation_table : e.method = "drip"

\* C16: after delete_field(id) has succeeded, no irrigation event and no
\* persisted water balance row of that field remains.
C16_DeleteFieldLeavesNothing ==
    (Called("delete_field") /\ Val(last_call).result = "True") =>
        /\ \A e \in irrigation_table : e.field_id # Val(last_call).field_id
        /\ \A r \in water_balance : r.field_id # Val(last_call).field_id

----------------------------------------------------------------------------
(* Part 4: the cached figure of the dashboard *)

MaxCallers == 3
Callers == 1..MaxCallers

\* a lock that is never seen as held
NeverLocked == FALSE

\* _build_lock.locked()
Locked == build_lock # None

\* tasks waiting in _build_lock.acquire()
Waiting == {c \in Callers : tasks[c].pc = "waiting"}

\* "_fig_cache is not None and not force"
CacheServes(force) == fig_cache # None /\ ~force

\* the figure a build returns: every build makes a new one
NewFigure == IF fig_cache = None THEN 1 ELSE Val(fig_cache) + 1

Task(pc, force, result) == [pc |-> pc, force |-> force, result |-> result]

\* lines 37-39 with the lock held: serve the cache and release, or hand
\* build_waterbalance_fig to a thread and wait for it
EnterLock(c) ==
    LET force == tasks[c].force
    IN  IF CacheServes(force)
        THEN /\ tasks' = [tasks EXCEPT ![c] = Task("done", force, fig_cache)]
             /\ UNCHANGED <<fig_cache, build_lock, threads>>
        ELSE /\ tasks' = [tasks EXCEPT ![c] = Task("building", force, None)]
             /\ build_lock' = Some(c)
             /\ threads' = threads \cup {c}
             /\ UNCHANGED fig_cache

\* get_fig(force) up to its first suspension
GetFig(c, force) ==
    /\ tasks[c].pc = "idle"
    /\ IF CacheServes(force)
       THEN /\ tasks' = [tasks EXCEPT ![c] = Task("done", force, fig_cache)]
            /\ UNCHANGED <<fig_cache, build_lock, threads>>
       ELSE IF Locked \/ Waiting # {}
       THEN /\ tasks' = [tasks EXCEPT ![c] = Task("waiting", force, None)]
            /\ UNCHANGED <<fig_cache, build_lock, threads>>
       ELSE /\ tasks' = [tasks EXCEPT ![c] = Task("building", force, None)]
            /\ build_lock' = Some(c)
            /\ threads' = threads \cup {c}
            /\ UNCHANGED fig_cache
    /\ UNCHANGED <<fhVars, dbVars, wfVars, schedVars>>

\* a task waiting for the lock gets it
Acquire(c) ==
    /\ tasks[c].pc = "waiting"
    /\ ~Locked
    /\ EnterLock(c)
    /\ UNCHANGED <<fhVars, dbVars, wfVars, schedVars>>

\* build_waterbalance_fig ends in its thread, with a figure or an exception
ThreadEnds(c, raised) ==
    /\ c \in threads
    /\ threads' = threads \ {c}
    /\ tasks' = [tasks EXCEPT ![c] =
                   Task(IF raised THEN "raised" ELSE "built", tasks[c].force,
                        IF raised THEN None ELSE Some(NewFigure))]
    /\ UNCHANGED <<fig_cache, build_lock>>
    /\ UNCHANGED <<fhVars, dbVars, wfVars, schedVars>>

\* the task resumes after to_thread: line 39 assigns the cache, the
\* "async with" releases the lock on the way out, also on an exception
Resume(c) ==
    /\ tasks[c].pc \in {"built", "raised"}
    /\ fig_cache' = IF tasks[c].pc = "built" THEN tasks[c].result ELSE fig_cache
    /\ build_lock' = None
    /\ tasks' = [tasks EXCEPT ![c].pc = "done"]
    /\ UNCHANGED threads
    /\ UNCHANGED <<fhVars, dbVars, wfVars, schedVars>>

InitDashboard ==
    /\ fig_cache = None /\ build_lock = None /\ threads = {}
    /\ tasks = [c \in Callers |-> Task("idle", FALSE, None)]
    /\ NoScheduler
    /\ fields = {} /\ irrigation_table = {} /\ water_balance = {}
    /\ last_call = None /\ purged = {} /\ updated = {}
    /\ clock = <<0, 0>> /\ run = None /\ plot = {} /\ log = {} /\ twice = None
    /\ fh = None /\ args = None /\ ret = NoCall

NextDashboard ==
    \/ \E c \in Callers, force \in BOOLEAN : GetFig(c, force)
    \/ \E c \in Callers : Acquire(c)
    \/ \E c \in Callers, raised \in BOOLEAN : ThreadEnds(c, raised)
    \/ \E c \in Callers : Resume(c)

SpecDashboard == InitDashboard /\ [][NextDashboard]_vars

----------------------------------------------------------------------------
(* Part 5: the correction curve of the evapotranspiration *)

MaxKcDay == 4
KcStarts == 1..MaxKcDay

\* days after every period start: Dec 31 of the year of the periods, a
\* season end, an explicit end
YearEnd == MaxKcDay + 3
KcSeasonEnd == MaxKcDay + 2
KcEnd == MaxKcDay + 1

\* the values of the periods, in hundredths
KcValue == [Kc_ini |-> 30, Kc_mid |-> 110, Kc_end |-> 65]

KcPeriod(name, value, start, end) ==
    [name |-> name, value |-> value, start |-> start, end |-> end]

KcPeriods ==
    {KcPeriod(n, KcValue[n], st, e) :
       n \in DOMAIN KcValue, st \in KcStarts, e \in {None, Some(KcEnd)}}

\* the lists of periods of a configuration, in the order they are written
PeriodLists ==
    UNION {{ps \in [1..n -> KcPeriods] :
              \A i, j \in 1..n : ps[i].name = ps[j].name => i = j} : n \in 0..3}

\* normalized.sort(key=lambda p: p.start): stable
RECURSIVE SortByStart(_)
SortByStart(ps) ==
    IF ps = <<>> THEN <<>>
    ELSE LET k == CHOOSE i \in 1..Len(ps) :
                    \A j \in 1..Len(ps) :
                        ps[i].start < ps[j].start \/ (ps[i].start = ps[j].start /\ i <= j)
             rest == [j \in 1..(Len(ps) - 1) |-> IF j < k THEN ps[j] ELSE ps[j + 1]]
         IN  <<ps[k]>> \o SortByStart(rest)

\* ETCorrection._attach_end_dates
AttachEndDates(periods, season_end) ==
    [idx \in 1..Len(periods) |->
        LET period == periods[idx]
            next_start == IF idx + 1 <= Len(periods)
                          THEN Some(periods[idx + 1].start) ELSE None
            end == IF period.end # None THEN period.end
                   ELSE IF next_start # None THEN next_start
                   ELSE season_end
        IN  [name |-> period.name, value |-> period.value, start |-> period.start,
             end |-> IF end = None THEN YearEnd ELSE Val(end)]]

\* reindex(..., method="backfill"): the value of the next start
Backfill(frame, day) ==
    LET later == {i \in 1..Len(frame) : frame[i].start >= day}
    IN  IF later = {} THEN None
        ELSE Some(frame[CHOOSE i \in later :
                          \A j \in later : frame[i].start <= frame[j].start].value)

\* reindex(..., method="pad"): the last value at or before the day, NaN
\* before the first
Pad(frame, day) ==
    LET earlier == {i \in 1..Len(frame) : frame[i].start <= day}
    IN  IF earlier = {} THEN None
        ELSE Some(frame[CHOOSE i \in earlier :
                          \A j \in earlier : frame[i].start >= frame[j].start].value)

\* ETCorrection(periods, season_end).as_daily_series(start, end)
DailySeries(periods, season_end, start, end) ==
    IF periods = <<>> THEN [raised |-> "ValueError", value |-> <<>>]
    ELSE
    LET frame == AttachEndDates(SortByStart(periods), season_end)
        rows == 1..Len(frame)
        start_ts == IF start # None THEN Val(start)
                    ELSE frame[CHOOSE i \in rows :
                                 \A j \in rows : frame[i].start <= frame[j].start].start
        end_ts == IF end # None THEN Val(end)
                  ELSE frame[CHOOSE i \in rows :
                               \A j \in rows : frame[i].end >= frame[j].end].end
    IN  IF \E i, j \in rows : i # j /\ frame[i].start = frame[j].start
        THEN [raised |-> "ValueError", value |-> <<>>]
        ELSE [raised |-> "none",
              value |-> [day \in start_ts..end_ts |-> Pad(frame, day)]]

InitCorrection ==
    /\ \E periods \in PeriodLists, season_end \in {None, Some(KcSeasonEnd)},
          start \in {None, Some(2)}, end \in {None, Some(KcEnd)} :
         args = [periods |-> periods, season_end |-> season_end,
                 start |-> start, end |-> end]
    /\ ret = NoCall
    /\ fh = None
    /\ fields = {} /\ irrigation_table = {} /\ water_balance = {}
    /\ last_call = None /\ purged = {} /\ updated = {}
    /\ NoFigure
    /\ NoScheduler
    /\ clock = <<0, 0>> /\ run = None /\ plot = {} /\ log = {} /\ twice = None

AsDailySeries ==
    /\ ret = NoCall
    /\ ret' = [op |-> "as_daily_series"] @@
              DailySeries(args.periods, args.season_end, args.start, args.end)
    /\ UNCHANGED <<fh, args, dbVars, wfVars, guiVars, schedVars>>

NextCorrection == AsDailySeries

SpecCorrection == InitCorrection /\ [][NextCorrection]_vars

\* as_daily_series has returned a series
DailySeriesReturned ==
    ret # NoCall /\ ret.op = "as_daily_series" /\ ret.raised = "none"

\* the periods of the configuration that have started by that day
StartedBy(day) == {i \in 1..Len(args.periods) : args.periods[i].start <= day}

\* periods A from day 1, B from day 3, C from day 4, season end after them
ThreePeriods ==
    /\ Len(args.periods) = 3
    /\ \A i \in 1..3 : args.periods[i].end = None
    /\ \E i, j, k \in 1..3 :
         /\ args.periods[i].name = "Kc_ini" /\ args.periods[i].start = 1
         /\ args.periods[j].name = "Kc_mid" /\ args.periods[j].start = 3
         /\ args.periods[k].name = "Kc_end" /\ args.periods[k].start = 4
    /\ args.season_end = Some(KcSeasonEnd)
    /\ args.start = None /\ args.end = None

\* C19: the curve is a step function over days: a day at or after the
\* first period start has the value of the period with the latest start at
\* or before it, so a period's value applies on its start day, and a day
\* before the first start has none; periods of 0.3 from day 1, 1.1 from day
\* 3 and 0.65 from day 4 give 0.3 on day 1, 1.1 on day 3 and 0.65 on every
\* day from day 4 to the day before the season end.
C19_StepFunction ==
    DailySeriesReturned =>
        /\ \A day \in DOMAIN ret.value :
              IF StartedBy(day) = {} THEN ret.value[day] = None
              ELSE \E i \in StartedBy(day) :
                     /\ \A j \in StartedBy(day) :
                          args.periods[j].start <= args.periods[i].start
                     /\ ret.value[day] = Some(args.periods[i].value)
        /\ \A i \in 1..Len(args.periods) :
              args.periods[i].start \in DOMAIN ret.value =>
                  ret.value[args.periods[i].start] = Some(args.periods[i].value)
        /\ ThreePeriods =>
              /\ 1..(KcSeasonEnd - 1) \subseteq DOMAIN ret.value
              /\ ret.value[1] = Some(30)
              /\ ret.value[3] = Some(110)
              /\ \A day \in 4..(KcSeasonEnd - 1) : ret.value[day] = Some(65)

\* the curve of the three periods, written in another order than by start
C19_Witness ==
    /\ DailySeriesReturned
    /\ ThreePeriods
    /\ args.periods[1].name = "Kc_end"
    /\ ret.value[2] = Some(30)

----------------------------------------------------------------------------
(* Part 6: the field capacity over all soil types, humus contents and depths *)

SoilTypes == DOMAIN DefaultLookup \cup {"Sand", "LEHM", "Humoser Lehmiger Sand", "torf"}

\* humus_pct in tenths of a percent: negative, none, the threshold 1.5, above
\* it, the last value below the ceiling, the first at it, beyond it
HumusChoices == {-5, 0, 15, 16, 25, 54, 55, 80}

RootDepthChoices == {-10, 0, 10, 30, 45}

InitCapacity ==
    /\ \E soil_type \in SoilTypes, humus10 \in HumusChoices,
          root_depth_cm \in RootDepthChoices :
         /\ fh = NewFieldHandler([soil_type |-> soil_type, p_allowable |-> 0])
         /\ args = [humus10 |-> humus10, root_depth_cm |-> root_depth_cm]
    /\ ret = NoCall
    /\ fields = {} /\ irrigation_table = {} /\ water_balance = {}
    /\ last_call = None /\ purged = {} /\ updated = {}
    /\ NoFigure
    /\ NoScheduler
    /\ clock = <<0, 0>> /\ run = None /\ plot = {} /\ log = {} /\ twice = None

NextCapacity == GetFieldCapacity

SpecCapacity == InitCapacity /\ [][NextCapacity]_vars

CapacityCalled == ret.op = "get_field_capacity"

----------------------------------------------------------------------------
(* The persisted rows under changes of the irrigation events *)

\* the last call has added, edited or deleted an irrigation event
EventChanged ==
    \/ Called("add_irrigation_event") /\ Val(last_call).result = "ok"
    \/ Called("delete_irrigation_event") /\ Val(last_call).result = "True"

\* C25: after an irrigation event was added, edited or deleted, no persisted
\* water balance row is left of the field the event belongs to, nor of the
\* field it belonged to before an edit moved it.
C25_EventChangeClearsRows ==
    EventChanged =>
        \A r \in water_balance :
            /\ Val(last_call).event # None =>
                 r.field_id # Val(Val(last_call).event).field_id
            /\ Val(last_call).old_field_id # None =>
                 r.field_id # Val(Val(last_call).old_field_id)

\* an edit has moved an event from field 1 to field 2 and deleted persisted
\* rows of both
C25_Witness ==
    /\ Called("add_irrigation_event")
    /\ Val(last_call).result = "ok"
    /\ Val(last_call).old_field_id = Some(1)
    /\ Val(last_call).field_id = 2
    /\ Val(last_call).cleared = {1, 2}

----------------------------------------------------------------------------
(* The persisted rows of two fields under the calls that clear them *)

\* a profile that differs from the stored one in the humus content
HumusProfile == [BaseProfile EXCEPT !.humus10 = 35]

\* a session that commits whatever happened
NoRollback(before, after, raised) == after

\* session_scope: commit at the end of the block, rollback on an exception
SessionScope(before, after, raised) == IF raised THEN before ELSE after

\* the record of an add_field call: what it returned (the field or None,
\* and the flag), whether the stored attributes equalled the given ones, and
\* the fields whose rows the call deleted
AddFieldCalled(name, p, returned) ==
    LET found == QueryField(fields, name)
    IN  Some([op |-> "add_field", name |-> name, p |-> p, result |-> returned,
              changed |-> IF found = None THEN FALSE
                          ELSE ChangedAttributes(Val(found), p) # {},
              same |-> /\ found # None
                       /\ \A a \in FieldAttributes : Val(found)[a] = p[a],
              cleared |-> {r.field_id : r \in water_balance \ water_balance'}])

\* IrrigDB.add_field(name, ...) returning (field, updated)
CallAddField(name, p) ==
    /\ AddField(name, p)
    /\ last_call' = AddFieldCalled(name, p, "field")

\* IrrigDB.add_field(name, ...) with an exception inside the transaction
\* (at the flush, after the changes were made in the session): rollback,
\* then "return (None, updated)"
AddFieldFails(name, p) ==
    LET found == QueryField(fields, name)
        pending == IF found = None \/ ChangedAttributes(Val(found), p) = {}
                   THEN [fields |-> fields \cup
                                     {NewField(NewId(fields), name, p) : x \in
                                        IF found = None THEN {1} ELSE {}},
                         water_balance |-> water_balance]
                   ELSE [fields |-> (fields \ {Val(found)}) \cup
                                     {NewField(Val(found).id, name, p)},
                         water_balance |-> ClearWaterBalanceRows(water_balance,
                                                                 Val(found).id)]
    IN  /\ fields' = SessionScope(fields, pending.fields, TRUE)
        /\ water_balance' = SessionScope(water_balance, pending.water_balance, TRUE)
        /\ last_call' = AddFieldCalled(name, p, "None")
        /\ UNCHANGED <<irrigation_table, purged, updated>>

InitCache ==
    /\ fields = {NewField(1, "Acker", BaseProfile), NewField(2, "Wiese", BaseProfile)}
    /\ irrigation_table = {}
    /\ water_balance \in SUBSET {WaterBalanceRow(f.id, 1, SampleStorage(f.id, 1)) :
                                   f \in fields}
    /\ last_call = None /\ purged = {} /\ updated = {}
    /\ NoFigure
    /\ NoScheduler
    /\ clock = <<0, 0>> /\ run = None /\ plot = {} /\ log = {} /\ twice = None
    /\ fh = None /\ args = None /\ ret = NoCall

NextCache ==
    \/ \E name \in FieldNames, p \in {BaseProfile, HumusProfile} :
         CallAddField(name, p) /\ UNCHANGED <<guiVars, schedVars, fhVars, wfVars>>
    \/ \E name \in FieldNames, p \in {BaseProfile, HumusProfile} :
         AddFieldFails(name, p) /\ UNCHANGED <<guiVars, schedVars, fhVars, wfVars>>
    \/ \E field_ids \in {None, Some(1), Some(2)} :
         ClearWaterBalance(field_ids) /\ UNCHANGED <<guiVars, schedVars, fhVars, wfVars>>
    \/ \E field_name \in FieldNames, id \in {None, Some(1)} :
         AddIrrigationEvent(field_name, 1, "drip", MM(10), id)
           /\ UNCHANGED <<guiVars, schedVars, fhVars, wfVars>>
    \/ \E event_id \in 1..MaxEventId :
         DeleteIrrigationEvent(event_id) /\ UNCHANGED <<guiVars, schedVars, fhVars, wfVars>>
    \/ \E f \in fields :
         AddWaterBalance(DayOneFrame(f.id), f.id) /\ UNCHANGED <<guiVars, schedVars, fhVars, wfVars>>

SpecCache == InitCache /\ [][NextCache]_vars

\* the ids of the fields of that name
NamedField(name) == {f.id : f \in {g \in fields : g.name = name}}

\* the fields of the events of that id
FieldOfEvent(id) == {e.field_id : e \in {q \in irrigation_table : q.id = id}}

\* the step leaves the rows of every field outside ids as they are
Kept(ids) ==
    /\ \A r \in water_balance : r.field_id \notin ids => r \in water_balance'
    /\ \A r \in water_balance' : r.field_id \notin ids => r \in water_balance

\* C26: updating a field, adding, editing or deleting an irrigation event
\* and clear_water_balance with a field id leave the persisted rows of every
\* field the call does not name as they are.
C26_ClearIsPerField ==
    [][/\ \A name \in FieldNames, p \in {BaseProfile, HumusProfile} :
            AddField(name, p) => Kept(NamedField(name))
       /\ \A k \in 1..2 :
            ClearWaterBalance(Some(k)) => Kept({k})
       /\ \A field_name \in FieldNames, id \in {None, Some(1)} :
            AddIrrigationEvent(field_name, 1, "drip", MM(10), id) =>
                Kept(NamedField(field_name) \cup
                     (IF id = None THEN {} ELSE FieldOfEvent(Val(id))))
       /\ \A event_id \in 1..MaxEventId :
            DeleteIrrigationEvent(event_id) => Kept(FieldOfEvent(event_id))]_vars

\* clear_water_balance has deleted the row of one field, the row of the
\* other field is in the table, and a field update has deleted rows before
C26_Witness ==
    /\ Called("clear_water_balance")
    /\ Val(last_call).result = 1
    /\ water_balance # {}
    /\ purged # {}

\* the stored field of that name
Stored(name) == Val(QueryField(fields, name))

\* C27: add_field for an existing field with attribute values all equal to
\* the stored ones returns changed = False and deletes no persisted row; and
\* after any add_field that returned the field the stored values are the
\* given ones, so the same call repeated is such a call and changes nothing.
C27_SameAttributesChangeNothing ==
    (Called("add_field") /\ Val(last_call).result = "field") =>
        LET c == Val(last_call)
        IN  /\ c.same => (~c.changed /\ c.cleared = {})
            /\ \A a \in FieldAttributes : Stored(c.name)[a] = c.p[a]

\* add_field was repeated with the values an earlier call had stored, and
\* the rows persisted since that call are still there
C27_Witness ==
    /\ Called("add_field")
    /\ Val(last_call).result = "field"
    /\ Val(last_call).same
    /\ Val(last_call).p = HumusProfile
    /\ \E r \in water_balance : r.field_id = Stored(Val(last_call).name).id

\* C28: an add_field that returns the field has either changed the field's
\* attributes and deleted all its persisted rows, or changed neither; an
\* add_field that fails inside its transaction returns None and leaves the
\* field rows and the persisted rows as they were before the call.
C28_UpdateAtomicWithClear ==
    [][(last_call' # None /\ Val(last_call').op = "add_field") =>
          LET c == Val(last_call')
              ids == NamedField(c.name)
          IN  /\ c.result = "None" =>
                    (fields' = fields /\ water_balance' = water_balance)
              /\ c.result = "field" =>
                    IF fields' # fields
                    THEN /\ \A r \in water_balance' : r.field_id \notin ids
                         /\ Kept(ids)
                    ELSE water_balance' = water_balance]_vars

\* an add_field with changed values has failed: the stored values are the
\* old ones and the field's persisted row is still there
C28_Witness ==
    /\ Called("add_field")
    /\ Val(last_call).result = "None"
    /\ Val(last_call).changed
    /\ \E a \in FieldAttributes :
         Stored(Val(last_call).name)[a] # Val(last_call).p[a]
    /\ \E r \in water_balance : r.field_id = Stored(Val(last_call).name).id

\* ---------------------------------------------------------------------
\* The irrigation page while a run is in flight.  get_fig hands the run to a
\* worker thread (asyncio.to_thread), the handlers of the irrigation page
\* call the database on the event loop: a call of the page falls between any
\* two steps of the run.
\* ---------------------------------------------------------------------

\* the record _clear_water_balance logs for each field it clears
ClearedRecords(ids) ==
    {<<"info", "Cleared water balance rows", f.name>> :
        f \in {g \in fields : g.id \in ids}}

\* handle_save of the irrigation page: an event of the field is added, or
\* the event of that id is edited
SaveIrrigation(field_name, id) ==
    /\ AddIrrigationEvent(field_name, 1, "drip", MM(10), id)
    /\ log' = IF Val(last_call').result = "ok"
              THEN log \cup ClearedRecords(NamedField(field_name) \cup
                                           (IF id = None THEN {}
                                            ELSE FieldOfEvent(Val(id))))
              ELSE log
    /\ UNCHANGED <<guiVars, schedVars, fhVars, clock, run, plot, twice>>

\* delete_func of the irrigation page
DeleteIrrigation(event_id) ==
    /\ DeleteIrrigationEvent(event_id)
    /\ log' = log \cup ClearedRecords(FieldOfEvent(event_id))
    /\ UNCHANGED <<guiVars, schedVars, fhVars, clock, run, plot, twice>>

\* the run on today's database, forced or not
InitRace ==
    /\ InitTables
    /\ clock[1] \in {SeasonStart, SeasonStart + 1}
    /\ irrigation_table = {}
    /\ twice = None

NextRace ==
    \/ \E force_fields \in ForceChoices :
         WorkflowStart(force_fields) /\ UNCHANGED twice
    \/ RunClear
    \/ RunCheckExisting
    \/ RunCaughtUp
    \/ RunCompute
    \/ WorkflowReturn
    \/ \E field_name \in FieldNames, id \in {None, Some(1)} :
         SaveIrrigation(field_name, id)
    \/ \E event_id \in 1..MaxEventId : DeleteIrrigation(event_id)

SpecRace == InitRace /\ [][NextRace]_vars

\* the fields whose irrigation events were changed since the run started
ChangedInFlight ==
    {f \in fields : <<"info", "Cleared water balance rows", f.name>> \in log}

\* C29: when the irrigation events of a field were added, edited or deleted
\* while a run was in flight, then at the end of the run no persisted row of
\* that field is left from before the change, and the run has written none.
C29_NoStaleRowsAfterRun ==
    At("done") =>
        \A f \in ChangedInFlight : WaterBalanceOf(water_balance, f.id) = {}

\* a run over a field has finished, and while it was in flight an event of
\* that field was changed and the field's persisted rows were deleted
C29_Witness ==
    /\ At("done")
    /\ Called("add_irrigation_event") \/ Called("delete_irrigation_event")
    /\ \E f \in ChangedInFlight :
         /\ f.id \in Val(last_call).cleared
         /\ \E k \in DOMAIN run.fields : run.fields[k].id = f.id
         /\ \/ <<"info", "No new period to compute", f.name>> \in log
            \/ <<"info", "Starting calculation", f.name>> \in log

\* ---------------------------------------------------------------------
\* Part 8: IrrigationScheduler (scheduler.py) as app.py uses it.  The
\* callback is scheduled_refresh, that is get_fig(force=True): it builds a
\* WaterBalanceWorkflow, whose constructor calls sys.exit(1) on a database
\* without fields.  Time is counted in ticks of half a second, a day is
\* DaySeconds long.
\* ---------------------------------------------------------------------

TicksPerSecond == 2
DaySeconds == 2
DayTicks == DaySeconds * TicksPerSecond

MaxNow == 6
MaxLoops == 2

\* time_of_day of the configuration, as the second of the day
TimeChoices == 0..(DaySeconds - 1)

\* a task of _run_loop: where it stands, the locals of the last
\* _seconds_until_next_run, the time asyncio.sleep is over, and whether the
\* last callback ended in the except clause
LoopTask(pc, next_run, sleep_seconds, wake, error) ==
    [pc |-> pc, next_run |-> next_run, sleep_seconds |-> sleep_seconds,
     wake |-> wake, error |-> error]

\* Task.done()
Done(id) == loops[id].pc \in {"cancelled", "finished"}

\* IrrigationScheduler._seconds_until_next_run: the local next_run
NextRun ==
    LET today == now - (now % DayTicks)
        next_run == today + scheduler.time_of_day * TicksPerSecond
    IN  IF next_run <= now THEN next_run + DayTicks ELSE next_run

\* int((next_run - now).total_seconds()), in ticks
SecondsUntilNextRun(next_run) ==
    ((next_run - now) \div TicksPerSecond) * TicksPerSecond

\* the callback is over: the loop computes the wait and sleeps
Sleeps(id, error) ==
    loops' = [loops EXCEPT ![id] =
                LoopTask("sleeping", Some(NextRun), Some(SecondsUntilNextRun(NextRun)),
                         Some(now + SecondsUntilNextRun(NextRun)), error)]

\* IrrigationScheduler.start()
Start ==
    /\ scheduler # None
    /\ IF scheduler.task = None \/ Done(Val(scheduler.task))
       THEN /\ Len(loops) < MaxLoops
            /\ loops' = Append(loops, LoopTask("callback", None, None, None, FALSE))
            /\ scheduler' = [scheduler EXCEPT !.task = Some(Len(loops) + 1),
                                              !.started = scheduler.started + 1]
       ELSE /\ scheduler.started < MaxLoops
            /\ scheduler' = [scheduler EXCEPT !.started = scheduler.started + 1]
            /\ UNCHANGED loops
    /\ UNCHANGED <<now, fhVars, dbVars, wfVars, guiVars>>

\* IrrigationScheduler.stop(): the task is cancelled at the await it stands at
Stop ==
    /\ scheduler # None
    /\ scheduler.task # None
    /\ loops' = [loops EXCEPT ![Val(scheduler.task)].pc =
                    IF Done(Val(scheduler.task)) THEN @ ELSE "cancelled"]
    /\ scheduler' = [scheduler EXCEPT !.task = None]
    /\ UNCHANGED <<now, fhVars, dbVars, wfVars, guiVars>>

\* await self.callback() returns
CallbackReturns(id) ==
    /\ loops[id].pc = "callback"
    /\ fields # {}
    /\ Sleeps(id, FALSE)
    /\ UNCHANGED <<scheduler, now, fhVars, dbVars, wfVars, guiVars>>

\* await self.callback() raises an Exception: the except clause logs it
CallbackRaises(id) ==
    /\ loops[id].pc = "callback"
    /\ Sleeps(id, TRUE)
    /\ UNCHANGED <<scheduler, now, fhVars, dbVars, wfVars, guiVars>>

\* the workflow of the callback finds no field and calls sys.exit(1):
\* SystemExit is no Exception, it leaves the except clause and the loop
CallbackExits(id) ==
    /\ loops[id].pc = "callback"
    /\ fields = {}
    /\ loops' = [loops EXCEPT ![id].pc = "finished"]
    /\ UNCHANGED <<scheduler, now, fhVars, dbVars, wfVars, guiVars>>

\* asyncio.sleep(sleep_seconds) is over: the next round of the loop
Wake(id) ==
    /\ loops[id].pc = "sleeping"
    /\ now >= Val(loops[id].wake)
    /\ loops' = [loops EXCEPT ![id].pc = "callback"]
    /\ UNCHANGED <<scheduler, now, fhVars, dbVars, wfVars, guiVars>>

\* half a second passes
Advance ==
    /\ now < MaxNow
    /\ now' = now + 1
    /\ UNCHANGED <<scheduler, loops, fhVars, dbVars, wfVars, guiVars>>

\* app.py at import: the scheduler is built, no task yet; the database has
\* a field or none
InitScheduler ==
    /\ \E time_of_day \in TimeChoices :
         scheduler = [time_of_day |-> time_of_day, task |-> None, started |-> 0]
    /\ loops = <<>>
    /\ now \in 0..(DayTicks - 1)
    /\ fields \in {{}, {NewField(1, "Acker", BaseProfile)}}
    /\ irrigation_table = {} /\ water_balance = {}
    /\ last_call = None /\ purged = {} /\ updated = {}
    /\ NoFigure
    /\ clock = <<0, 0>> /\ run = None /\ plot = {} /\ log = {} /\ twice = None
    /\ fh = None /\ args = None /\ ret = NoCall

NextScheduler ==
    \/ Start
    \/ Stop
    \/ \E id \in DOMAIN loops : CallbackReturns(id)
    \/ \E id \in DOMAIN loops : CallbackRaises(id)
    \/ \E id \in DOMAIN loops : CallbackExits(id)
    \/ \E id \in DOMAIN loops : Wake(id)
    \/ Advance

SpecScheduler == InitScheduler /\ [][NextScheduler]_vars

\* the callback of the loop task id has raised in this step
CallbackFails(id) == CallbackRaises(id) \/ CallbackExits(id)

\* the loop logs the failure and goes to sleep until the next run
LoggedAndAsleep(id) ==
    /\ loops'[id].pc = "sleeping"
    /\ loops'[id].error
    /\ loops'[id].next_run = Some(NextRun)

\* the sleep of the loop task id ends with the next call of the callback, at
\* the configured time of day or after it
CalledAgainOnTime(id) ==
    (loops[id].pc = "sleeping" /\ loops'[id].pc # "sleeping" /\ scheduler' = scheduler)
        => /\ loops'[id].pc = "callback"
           /\ now >= Val(loops[id].next_run)

\* the loop task id ends in this step
LoopEnds(id) ==
    /\ loops[id].pc \in {"callback", "sleeping"}
    /\ loops'[id].pc \notin {"callback", "sleeping"}

\* this step is a stop() of the scheduler whose task is id
Stopped(id) == scheduler.task = Some(id) /\ scheduler'.task = None

\* this step is a start() of a scheduler whose loop task is running
StartedWhileRunning ==
    /\ scheduler.task # None
    /\ ~Done(Val(scheduler.task))
    /\ scheduler'.started # scheduler.started

\* C30: a callback that raises leaves the loop logging the failure and
\* asleep until the next configured time of day, after which the callback
\* is invoked again; a loop task ends only by stop(); and start() on a
\* scheduler whose loop task is running creates no second loop task.
C30_LoopSurvivesFailures ==
    [][/\ \A id \in DOMAIN loops :
            /\ CallbackFails(id) => LoggedAndAsleep(id)
            /\ CalledAgainOnTime(id)
            /\ LoopEnds(id) => Stopped(id)
       /\ StartedWhileRunning => loops' = loops]_vars

====
